---------------------------- MODULE Spec2Model ----------------------------
(***************************************************************************)
(* A model of the REST Layer MongoDB storage handler (mongo.go, query.go). *)
(*                                                                         *)
(* The collection is a function from identifiers to stored documents.     *)
(* Every exported operation of Handler is a small state machine whose      *)
(* steps are the native round trips of the code (InsertMany, ReplaceOne,   *)
(* FindOne, DeleteOne, DeleteMany, Find, CountDocuments) and the cursor    *)
(* iterations between them; callers run concurrently and their contexts    *)
(* can be cancelled between any two steps.                                 *)
(*                                                                         *)
(* Strings the code inspects character by character (entity tags) are      *)
(* sequences of one-character strings, so that strings.HasPrefix and the   *)
(* "p-" + id concatenation are computed and not assumed.                   *)
(*                                                                         *)
(* The native driver is outside the repository.  Its contract is taken as  *)
(* the code reads it: a native call either succeeds and applies, or fails  *)
(* with an error and applies nothing; InsertMany is ordered (it stops at   *)
(* the first write error, keeping what it inserted before), and DeleteMany *)
(* can fail part way and still report a result (info # nil) together with  *)
(* the error.  A limit of 0 given to the native find means "no limit".     *)
(***************************************************************************)
EXTENDS Integers, Sequences, FiniteSets, TLC

(***************************************************************************)
(* Bounds of the model.                                                    *)
(***************************************************************************)
MaxId == 2       \* identifiers are 1..MaxId
MaxCalls == 2    \* operations invoked in one behaviour
MaxLimit == 1    \* window limits are -1..MaxLimit, offsets 0..MaxLimit
MaxSort == 3     \* sort lists given to getSort have at most MaxSort fields
MaxProj == 2     \* projections given to getProjection have at most MaxProj fields
MaxPred == 2     \* predicates given to translatePredicate have at most MaxPred expressions

(***************************************************************************)
(* Program constants.                                                      *)
(***************************************************************************)
DupCode == 11000   \* the duplicate-key write error code isDup looks for
OtherCode == DupCode + 1   \* a write error code isDup does not look for

Ids == 1..MaxId
Vals == {0, 1}

\* Entity tags, as sequences of characters.
TagEmpty == <<>>
TagA == <<"a">>
TagB == <<"b">>
TagP == <<"p", "-", "x">>      \* a real tag that happens to start with "p-"
PPrefix == <<"p", "-">>
Tags == {TagEmpty, TagA, TagB, TagP}

\* strings.HasPrefix
HasPrefix(s, prefix) ==
    /\ Len(s) >= Len(prefix)
    /\ SubSeq(s, 1, Len(prefix)) = prefix

\* fmt.Sprint of an identifier (identifiers are small naturals here; an
\* ObjectID's Hex() is the same kind of injective rendering).
Sprint(id) == <<ToString(id)>>

\* Finite maps (Go maps, bson.M).
EmptyMap == [k \in {} |-> 0]
Put(m, k, v) == [x \in (DOMAIN m) \cup {k} |-> IF x = k THEN v ELSE m[x]]
Without(m, k) == [x \in (DOMAIN m) \ {k} |-> m[x]]

\* Field names, as sequences of characters (strings.Split looks inside them).
NameId == <<"i", "d">>
NameUId == <<"_", "i", "d">>
NameUEtag == <<"_", "e", "t", "a", "g">>
NameUUpdated == <<"_", "u", "p", "d", "a", "t", "e", "d">>
NameV == <<"v">>
NameAnd == <<"$", "a", "n", "d">>
NameOr == <<"$", "o", "r">>

(***************************************************************************)
(* Item codec (mongo.go).                                                  *)
(*   resource.Item : [id, etag, updated, payload]                          *)
(*   mongoItem     : [id, etag, updated, payload, nilPayload]              *)
(*   stored doc    : [hasEtag, etag, updated, payload]  (keyed by _id)     *)
(***************************************************************************)
newMongoItem(i) ==
    [id |-> i.id, etag |-> i.etag, updated |-> i.updated,
     payload |-> Without(i.payload, NameId), nilPayload |-> FALSE]

\* bson encoding of a mongoItem: _etag is always written (no omitempty),
\* the payload is inlined.
Encode(m) ==
    [hasEtag |-> TRUE, etag |-> m.etag, updated |-> m.updated,
     payload |-> m.payload]

\* bson decoding of the stored document id |-> d into a mongoItem: a missing
\* _etag leaves the zero value "", no inline field leaves Payload nil.
Decode(id, d) ==
    [id |-> id,
     etag |-> IF d.hasEtag THEN d.etag ELSE TagEmpty,
     updated |-> d.updated,
     payload |-> d.payload,
     nilPayload |-> (DOMAIN d.payload = {})]

\* newItem without lines 48-50 and 60-66: the tag and the payload as decoded.
newItemAsDecoded(m) ==
    [id |-> m.id, etag |-> m.etag, updated |-> m.updated,
     payload |-> IF m.nilPayload THEN EmptyMap ELSE Put(m.payload, NameId, m.id)]

\* Lines 45-68.
newItem(m) ==
    LET p0 == IF m.nilPayload THEN EmptyMap ELSE m.payload
        p == Put(p0, NameId, m.id)
    IN [id |-> m.id,
        etag |-> IF m.etag = TagEmpty THEN PPrefix \o Sprint(m.id) ELSE m.etag,
        updated |-> m.updated,
        payload |-> p]


(***************************************************************************)
(* Query translation (query.go).                                           *)
(*                                                                         *)
(* A predicate is a sequence of expressions; an expression is a record     *)
(* with a kind.  Kinds of the allow-list: And, Or (exps), ElemMatch        *)
(* (field, exps), In, NotIn (field, values), Exist, NotExist (field),      *)
(* Equal, NotEqual, GreaterThan, GreaterOrEqual, LowerThan, LowerOrEqual   *)
(* (field, value), Regex (field, value, negated).  The kind "Predicate"    *)
(* (exps) is a query.Predicate used as an expression; any other kind is    *)
(* an expression type the switch does not list.                            *)
(*                                                                         *)
(* A compiled filter (bson.M) is a finite map from keys to clauses         *)
(* [op, arg]: op "value" is a bare value (implicit equality), op "filters" *)
(* the list under $and / $or, the other ops are the one-key sub-documents. *)
(***************************************************************************)
getField(f) == IF f = NameId THEN NameUId ELSE f

expToPredicate(exp) ==
    IF exp.kind = "Predicate" THEN exp.exps ELSE <<exp>>

Compiled(b) == [b |-> b, nil |-> FALSE, err |-> "nil"]
\* CompileError that lets the expression pass: an empty filter, no error.
CompileErrorSilent(e) == [b |-> EmptyMap, nil |-> FALSE, err |-> "nil"]
CompileError(e) == [b |-> EmptyMap, nil |-> TRUE, err |-> e]

RECURSIVE translatePredicate(_)
RECURSIVE TranslateFrom(_, _, _)
RECURSIVE TranslateSubs(_, _, _)
RECURSIVE TranslateElem(_, _, _)

\* The loops of the And and Or cases: s collects the compiled sub-filters.
TranslateSubs(exps, i, s) ==
    IF i > Len(exps) THEN [s |-> s, err |-> "nil"]
    ELSE LET sb == translatePredicate(expToPredicate(exps[i]))
         IN IF sb.err # "nil" THEN [s |-> <<>>, err |-> sb.err]
            ELSE TranslateSubs(exps, i + 1, Append(s, sb.b))

\* The loop of the ElemMatch case: s[k] = v for every clause of a sub-filter.
TranslateElem(exps, i, s) ==
    IF i > Len(exps) THEN [s |-> s, err |-> "nil"]
    ELSE LET sb == translatePredicate(expToPredicate(exps[i]))
         IN IF sb.err # "nil" THEN [s |-> EmptyMap, err |-> sb.err]
            ELSE TranslateElem(exps, i + 1,
                     [k \in (DOMAIN s) \cup (DOMAIN sb.b) |->
                         IF k \in DOMAIN sb.b THEN sb.b[k] ELSE s[k]])

\* One clause of the switch for the kinds that bind one field.
LeafClause(t) ==
    CASE t.kind = "In" -> [op |-> "$in", arg |-> t.values]
      [] t.kind = "NotIn" -> [op |-> "$nin", arg |-> t.values]
      [] t.kind = "Exist" -> [op |-> "$exists", arg |-> TRUE]
      [] t.kind = "NotExist" -> [op |-> "$exists", arg |-> FALSE]
      [] t.kind = "Equal" -> [op |-> "value", arg |-> t.value]
      [] t.kind = "NotEqual" -> [op |-> "$ne", arg |-> t.value]
      [] t.kind = "GreaterThan" -> [op |-> "$gt", arg |-> t.value]
      [] t.kind = "GreaterOrEqual" -> [op |-> "$gte", arg |-> t.value]
      [] t.kind = "LowerThan" -> [op |-> "$lt", arg |-> t.value]
      [] t.kind = "LowerOrEqual" -> [op |-> "$lte", arg |-> t.value]
      [] t.kind = "Regex" ->
            IF t.negated THEN [op |-> "$not", arg |-> t.value]
            ELSE [op |-> "$regex", arg |-> t.value]

LeafKinds ==
    {"In", "NotIn", "Exist", "NotExist", "Equal", "NotEqual", "GreaterThan",
     "GreaterOrEqual", "LowerThan", "LowerOrEqual", "Regex"}

\* The loop of translatePredicate from expression i on, b the map so far.
TranslateFrom(q, i, b) ==
    IF i > Len(q) THEN Compiled(b)
    ELSE LET t == q[i] IN
         CASE t.kind = "And" ->
                LET r == TranslateSubs(t.exps, 1, <<>>)
                IN IF r.err # "nil" THEN CompileError(r.err)
                   ELSE TranslateFrom(q, i + 1,
                            Put(b, NameAnd, [op |-> "filters", arg |-> r.s]))
           [] t.kind = "Or" ->
                LET r == TranslateSubs(t.exps, 1, <<>>)
                IN IF r.err # "nil" THEN CompileError(r.err)
                   ELSE TranslateFrom(q, i + 1,
                            Put(b, NameOr, [op |-> "filters", arg |-> r.s]))
           [] t.kind = "ElemMatch" ->
                LET r == TranslateElem(t.exps, 1, EmptyMap)
                IN IF r.err # "nil" THEN CompileError(r.err)
                   ELSE TranslateFrom(q, i + 1,
                            Put(b, getField(t.field),
                                [op |-> "$elemMatch", arg |-> r.s]))
           [] t.kind \in LeafKinds ->
                TranslateFrom(q, i + 1, Put(b, getField(t.field), LeafClause(t)))
           [] OTHER -> CompileError("NotImplemented")

translatePredicate(q) == TranslateFrom(q, 1, EmptyMap)

getQuery(q) == translatePredicate(q.predicate)

\* getSort: the sort list, then the de-duplication loop from the end.
RECURSIVE SortEntries(_, _)
SortEntries(sort, i) ==
    IF i > Len(sort) THEN <<>>
    ELSE <<[key |-> getField(sort[i].name),
            value |-> IF sort[i].reversed THEN -1 ELSE 1]>>
         \o SortEntries(sort, i + 1)

RemoveAt(s, i) == SubSeq(s, 1, i - 1) \o SubSeq(s, i + 1, Len(s))

\* Dedup that keeps the first entry of a key and not the last.
DedupKeepFirst(s, i, seen) ==
    LET keep == {j \in 1..Len(s) : \A k \in 1..(j - 1) : s[k].key # s[j].key}
    IN [n \in 1..Cardinality(keep) |->
           s[CHOOSE j \in keep : Cardinality({k \in keep : k <= j}) = n]]

\* Lines 50-57: from the last entry to the first, an entry whose key was
\* seen is removed.
RECURSIVE Dedup(_, _, _)
Dedup(s, i, seen) ==
    IF i < 1 THEN s
    ELSE IF s[i].key \in seen THEN Dedup(RemoveAt(s, i), i - 1, seen)
         ELSE Dedup(s, i - 1, seen \cup {s[i].key})

getSort(q) ==
    IF Len(q.sort) = 0 THEN <<[key |-> NameUId, value |-> 1]>>
    ELSE LET s == SortEntries(q.sort, 1) IN Dedup(s, Len(s), {})

\* TopLevel that gives the whole dotted path.
TopLevelWhole(name, i) == name

\* strings.Split(name, ".")[0]: the characters before the first dot.
RECURSIVE TopLevel(_, _)
TopLevel(name, i) ==
    IF i > Len(name) \/ name[i] = "." THEN <<>>
    ELSE <<name[i]>> \o TopLevel(name, i + 1)

hasStarProjection(q) ==
    \E i \in 1..Len(q.projection) : q.projection[i].name = <<"*">>

RECURSIVE ProjectionFrom(_, _, _)
ProjectionFrom(fields, i, pr) ==
    IF i > Len(fields) THEN pr
    ELSE IF fields[i].name = NameId THEN ProjectionFrom(fields, i + 1, pr)
         ELSE ProjectionFrom(fields, i + 1,
                  Put(pr, getField(TopLevel(fields[i].name, 1)), 1))

\* getProjection: nil (no projection), or the inclusion map.
getProjection(q) ==
    IF Len(q.projection) = 0 \/ hasStarProjection(q)
    THEN [nil |-> TRUE, p |-> EmptyMap]
    ELSE [nil |-> FALSE,
          p |-> ProjectionFrom(q.projection, 1,
                    (NameUId :> 1) @@ (NameUEtag :> 1) @@ (NameUUpdated :> 1))]

\* applyWindow: the skip and limit options given to the native find
\* (set = FALSE: the option is left unset).
applyWindow(fo, w) ==
    LET fo1 == IF w.offset > 0
               THEN [fo EXCEPT !.skipSet = TRUE, !.skip = w.offset] ELSE fo
    IN IF w.limit > -1
       THEN [fo1 EXCEPT !.limitSet = TRUE, !.limit = w.limit] ELSE fo1

FindOptions(sort) ==
    [sort |-> sort, skipSet |-> FALSE, skip |-> 0, limitSet |-> FALSE, limit |-> 0]

(***************************************************************************)
(* The native layer: what the database does with a filter, a sort and a    *)
(* window.  Stored documents hold scalar fields only, so $elemMatch and    *)
(* $regex match none of them and $not of a regex matches all of them.      *)
(***************************************************************************)
\* The value of field k in the stored document id |-> d.
Field(k, id, d) ==
    CASE k = NameUId -> [present |-> TRUE, value |-> id]
      [] k = NameUEtag -> [present |-> d.hasEtag, value |-> d.etag]
      [] k = NameUUpdated -> [present |-> TRUE, value |-> d.updated]
      [] OTHER -> IF k \in DOMAIN d.payload
                  THEN [present |-> TRUE, value |-> d.payload[k]]
                  ELSE [present |-> FALSE, value |-> 0]

MatchClause(c, f) ==
    CASE c.op = "value" -> f.present /\ f.value = c.arg
      [] c.op = "$ne" -> ~(f.present /\ f.value = c.arg)
      [] c.op = "$gt" -> f.present /\ f.value > c.arg
      [] c.op = "$gte" -> f.present /\ f.value >= c.arg
      [] c.op = "$lt" -> f.present /\ f.value < c.arg
      [] c.op = "$lte" -> f.present /\ f.value <= c.arg
      [] c.op = "$in" ->
            f.present /\ \E i \in 1..Len(c.arg) : c.arg[i] = f.value
      [] c.op = "$nin" ->
            ~(f.present /\ \E i \in 1..Len(c.arg) : c.arg[i] = f.value)
      [] c.op = "$exists" -> f.present = c.arg
      [] c.op = "$elemMatch" -> FALSE
      [] c.op = "$regex" -> FALSE
      [] c.op = "$not" -> TRUE

RECURSIVE MatchFilter(_, _, _)
MatchFilter(b, id, d) ==
    \A k \in DOMAIN b :
        CASE k = NameAnd ->
                \A i \in 1..Len(b[k].arg) : MatchFilter(b[k].arg[i], id, d)
          [] k = NameOr ->
                \E i \in 1..Len(b[k].arg) : MatchFilter(b[k].arg[i], id, d)
          [] OTHER -> MatchClause(b[k], Field(k, id, d))

Matching(c, b) == {id \in DOMAIN c : MatchFilter(b, id, c[id])}

\* The sort key of a document: a missing field sorts before every value.
SortKey(c, k, id) ==
    LET f == Field(k, id, c[id]) IN IF f.present THEN f.value ELSE -1

RECURSIVE Before(_, _, _, _, _)
\* id1 may come before id2 under sort entries i.. (ties: either order).
Before(c, sort, i, id1, id2) ==
    IF i > Len(sort) THEN TRUE
    ELSE LET a == SortKey(c, sort[i].key, id1)
             b == SortKey(c, sort[i].key, id2)
         IN IF a = b THEN Before(c, sort, i + 1, id1, id2)
            ELSE IF sort[i].value = 1 THEN a < b ELSE a > b

\* The orders in which the native find may return the documents of set.
Orders(c, set, sort) ==
    {o \in [1..Cardinality(set) -> set] :
        /\ \A i, j \in DOMAIN o : i # j => o[i] # o[j]
        /\ \A i, j \in DOMAIN o : i < j => Before(c, sort, 1, o[i], o[j])}

\* skip, then limit; a limit of 0 is "no limit" for the native driver.
Windowed(o, fo) ==
    LET from == IF fo.skipSet THEN fo.skip + 1 ELSE 1
        rest == IF from > Len(o) THEN <<>> ELSE SubSeq(o, from, Len(o))
    IN IF fo.limitSet /\ fo.limit > 0 /\ fo.limit < Len(rest)
       THEN SubSeq(rest, 1, fo.limit) ELSE rest

\* The results the native find may give: sequences of <<id, document>>.
NativeFind(c, b, fo) ==
    {[i \in DOMAIN Windowed(o, fo) |->
         [id |-> Windowed(o, fo)[i], doc |-> c[Windowed(o, fo)[i]]]] :
       o \in Orders(c, Matching(c, b), fo.sort)}

\* Ordered bulk insert: the documents before the first duplicate key are
\* inserted.  Gives the new collection and whether a duplicate was hit.
RECURSIVE InsertOrdered(_, _, _)
InsertOrdered(c, ms, i) ==
    IF i > Len(ms) THEN [coll |-> c, dup |-> FALSE]
    ELSE IF ms[i].id \in DOMAIN c THEN [coll |-> c, dup |-> TRUE]
         ELSE InsertOrdered(Put(c, ms[i].id, Encode(ms[i])), ms, i + 1)

Remove(c, set) == [id \in (DOMAIN c) \ set |-> c[id]]

\* The part of a stored document an inclusion projection lets through.
Projected(d, proj) ==
    IF proj.nil THEN d
    ELSE [d EXCEPT !.hasEtag = @ /\ NameUEtag \in DOMAIN proj.p,
                   !.payload = [k \in (DOMAIN @) \cap (DOMAIN proj.p) |-> @[k]]]

(***************************************************************************)
(* The handler (mongo.go): state.                                          *)
(*                                                                         *)
(* coll   : the MongoDB collection, identifier |-> stored document.        *)
(* call   : for each caller, the operation it is in, where it is in it,    *)
(*          its arguments, its context, its local variables and, once it   *)
(*          is done, what it returned.  Fields that record what happened   *)
(*          during the call and that the code does not hold (natives,      *)
(*          wrote, seen, ...) are the observer's.                          *)
(* ncalls : the number of operations invoked so far.                       *)
(* arg, result : the argument and the result of a function of the package  *)
(*          that is applied on its own (getSort, getProjection, the codec, *)
(*          translatePredicate); they play no part in the handler.         *)
(***************************************************************************)
VARIABLES coll, call, ncalls, arg, result

vars == <<coll, call, ncalls, arg, result>>

\* No argument given, no result yet.
Unset == [set |-> FALSE]

\* "a" is the caller under observation: it invokes any operation, on any
\* identifier, and its context may be cancelled.  "b" is a concurrent writer:
\* while a call of "a" is in flight it inserts, updates or deletes the
\* document 1, with a context that stays live.
Callers == {"a", "b"}
Readers == {"a"}
Contexts(p) == IF p \in Readers THEN BOOLEAN ELSE {FALSE}
Targets(p) == IF p \in Readers THEN Ids ELSE {1}

MkItem(id, etag, v) ==
    [id |-> id, etag |-> etag, updated |-> 0,
     payload |-> (NameV :> v) @@ (NameId :> id)]

MkDoc(hasEtag, etag, v) ==
    [hasEtag |-> hasEtag, etag |-> etag, updated |-> 0, payload |-> (NameV :> v)]

\* Documents present before the first call: one written by another program
\* with no _etag field, one written by this handler.
InitDocs == {MkDoc(FALSE, TagEmpty, 1), MkDoc(TRUE, TagA, 0)}

NoItem == MkItem(0, TagEmpty, 0)
NoWindow == <<>>
NoQuery == [predicate |-> <<>>, sort |-> <<>>, projection |-> <<>>, window |-> NoWindow]
NoError == [shape |-> "none", codes |-> <<>>]
NilInfo == [nil |-> TRUE, n |-> 0]

HasWindow(q) == q.window # NoWindow
Window(q) == q.window[1]

Idle ==
    [op |-> "idle", pc |-> "idle", ctxErr |-> FALSE,
     items |-> <<>>, item |-> NoItem, original |-> NoItem, q |-> NoQuery,
     qry |-> EmptyMap, nerr |-> NoError, info |-> NilInfo, infoErr |-> "nil",
     ids |-> <<>>, cursor |-> <<>>, open |-> 0, list |-> <<>>, limit |-> -1,
     ret |-> "nil", count |-> 0, nilList |-> TRUE,
     \* the observer's record of the call
     met |-> 0, startCancelled |-> FALSE, natives |-> {},
     wrote |-> {}, interf |-> FALSE, faulted |-> FALSE, seen |-> <<>>,
     had |-> {}, liveAtWrite |-> FALSE, since |-> {}, othersRemoved |-> FALSE,
     failed |-> FALSE]

InFlight(c) == c.op # "idle" /\ c.pc # "done"

Init ==
    /\ coll \in UNION {[S -> InitDocs] : S \in SUBSET Ids}
    /\ call = [p \in Callers |-> Idle]
    /\ ncalls = 0
    /\ arg = Unset
    /\ result = Unset

\* What the record of another call, in flight or done and not yet taken by
\* its caller, notes when caller p inserts the documents ins, removes the
\* documents rem and replaces the documents chg.
Noted(c, ins, rem, chg) ==
    IF c.op = "idle" \/ (ins \cup rem \cup chg) = {} THEN c
    ELSE LET selected == c.op = "Clear" /\ c.pc \in {"selectIDs", "DeleteMany"}
         IN [c EXCEPT !.interf = TRUE,
                      !.since = IF selected THEN @ \cup ins ELSE @,
                      !.othersRemoved = @ \/ (selected /\ rem # {})]

\* Caller p's record becomes r; the others note p's writes.
Step(p, r, ins, rem, chg) ==
    /\ call' = [x \in Callers |->
                   IF x = p THEN r ELSE Noted(call[x], ins, rem, chg)]
    /\ UNCHANGED <<ncalls, arg, result>>

Quiet(p, r) == Step(p, r, {}, {}, {}) /\ UNCHANGED coll

\* A new call of caller p: its record, and the other calls in flight meet it.
Invoke(p, r) ==
    /\ call[p].op = "idle"
    /\ p \in Readers \/ \E x \in Readers : InFlight(call[x])
    /\ ncalls < MaxCalls
    /\ ncalls' = ncalls + 1
    /\ UNCHANGED <<coll, arg, result>>
    /\ LET others == {x \in Callers \ {p} : InFlight(call[x])}
       IN call' = [x \in Callers |->
                      IF x = p
                      THEN [r EXCEPT !.met = Cardinality(others),
                                     !.startCancelled = r.ctxErr]
                      ELSE IF x \in others
                           THEN [call[x] EXCEPT !.met = @ + 1]
                           ELSE call[x]]

Done(c, ret) == [c EXCEPT !.pc = "done", !.ret = ret]

\* Handler.c without the check of the context.
HandlerCUnchecked(ctxErr) == "nil"

\* Handler.c: the context is checked before the collection is handed out.
HandlerC(ctxErr) == IF ctxErr THEN "ctx" ELSE "nil"

(***************************************************************************)
(* Insert.                                                                 *)
(***************************************************************************)
WriteErrorShapes == {"WriteException", "BulkWriteException"}

\* isDup that looks at the single-write shape only.
isDupSingleWrite(err) ==
    /\ err.shape = "WriteException"
    /\ \E i \in 1..Len(err.codes) : err.codes[i] = DupCode

isDup(err) ==
    \/ /\ err.shape = "WriteException"
       /\ \E i \in 1..Len(err.codes) : err.codes[i] = DupCode
    \/ /\ err.shape = "BulkWriteException"
       /\ \E i \in 1..Len(err.codes) : err.codes[i] = DupCode

InsertTags == {TagA, TagP}
InsertItems(tags) == {MkItem(id, t, 1) : id \in Ids, t \in tags}
InsertOne(ids, tags) == {<<MkItem(id, t, 1)>> : id \in ids, t \in tags}
Batches(p) ==
    IF p \in Readers
    THEN {<<i>> : i \in InsertItems(InsertTags)}
         \cup {<<i, j>> : i \in InsertItems(InsertTags), j \in InsertItems({TagA})}
    ELSE InsertOne(Targets(p), {TagA})

RECURSIVE MongoItems(_, _)
MongoItems(items, i) ==
    IF i > Len(items) THEN <<>>
    ELSE <<newMongoItem(items[i])>> \o MongoItems(items, i + 1)

\* Lines 141-150: the items are converted, the context is checked.
Insert(p) ==
    \E items \in Batches(p), cancelled \in Contexts(p) :
        LET c == [Idle EXCEPT !.op = "Insert", !.items = items, !.ctxErr = cancelled]
            err == HandlerC(cancelled)
        IN Invoke(p, IF err # "nil" THEN Done(c, err)
                     ELSE [c EXCEPT !.pc = "InsertMany"])

\* Line 151: the native bulk insert.
InsertMany(p) ==
    /\ call[p].pc = "InsertMany"
    /\ LET c == call[p]
           ms == MongoItems(c.items, 1)
           r == InsertOrdered(coll, ms, 1)
           ins == (DOMAIN r.coll) \ (DOMAIN coll)
           c1 == [c EXCEPT !.pc = "InsertReturn", !.natives = @ \cup {"InsertMany"},
                           !.had = DOMAIN coll]
       IN \/ \* no failure but a duplicate key, reported in either shape
             \E shape \in WriteErrorShapes :
                /\ coll' = r.coll
                /\ Step(p, [c1 EXCEPT !.wrote = @ \cup ins,
                                      !.liveAtWrite = ~c.ctxErr /\ ~r.dup,
                                      !.nerr = IF r.dup
                                               THEN [shape |-> shape, codes |-> <<DupCode>>]
                                               ELSE NoError],
                        ins, {}, {})
          \/ \* the first document is refused for another reason
             \E shape \in WriteErrorShapes :
                /\ UNCHANGED coll
                /\ Step(p, [c1 EXCEPT !.faulted = TRUE,
                                      !.nerr = [shape |-> shape, codes |-> <<OtherCode>>]],
                        {}, {}, {})
          \/ \* the call fails
             /\ UNCHANGED coll
             /\ Step(p, [c1 EXCEPT !.faulted = TRUE,
                                   !.nerr = [shape |-> "other", codes |-> <<>>]],
                     {}, {}, {})

\* Lines 152-159.
InsertResult(nerr, ctxErr) ==
    LET err == IF isDup(nerr) THEN "Conflict"
               ELSE IF nerr.shape = "none" THEN "nil" ELSE "native"
    IN IF ctxErr THEN "ctx" ELSE err

InsertReturn(p) ==
    /\ call[p].pc = "InsertReturn"
    /\ Quiet(p, Done(call[p], InsertResult(call[p].nerr, call[p].ctxErr)))

(***************************************************************************)
(* Update and Delete.                                                      *)
(***************************************************************************)
\* ConditionalFilter without its guard: the write is by identifier alone.
ConditionalFilterNoGuard(id, etag) ==
    (NameUId :> [op |-> "value", arg |-> id])

\* Lines 170-177 and 206-213: the identifier and the guard on the tag.
ConditionalFilter(id, etag) ==
    (NameUId :> [op |-> "value", arg |-> id])
    @@ (NameUEtag :> IF HasPrefix(etag, PPrefix)
                     THEN [op |-> "$exists", arg |-> FALSE]
                     ELSE [op |-> "value", arg |-> etag])

\* Lines 185-194 and 221-230: err is the error of the conditional write (nil
\* here), infoErr the error of the re-fetch.
Disambiguate(err, infoErr, ctxErr) ==
    IF err # "nil" THEN err
    ELSE IF infoErr = "ErrNoDocuments" THEN "NotFound"
    ELSE IF ctxErr THEN "ctx"
    ELSE "Conflict"

OriginalTags(p, id) ==
    IF p \in Readers THEN {TagA, TagP, PPrefix \o Sprint(id)}
    ELSE {TagA, PPrefix \o Sprint(id)}
NewTags(p) == IF p \in Readers THEN {TagA, TagEmpty} ELSE {TagB}

\* Lines 163-169.
Update(p) ==
    \E id \in Targets(p), cancelled \in Contexts(p), nt \in NewTags(p) :
      \E ot \in OriginalTags(p, id) :
        LET c == [Idle EXCEPT !.op = "Update", !.item = MkItem(id, nt, 1),
                              !.original = MkItem(id, ot, 1), !.ctxErr = cancelled]
            err == HandlerC(cancelled)
        IN Invoke(p, IF err # "nil" THEN Done(c, err)
                     ELSE [c EXCEPT !.pc = "ReplaceOne"])

\* Lines 200-205.
Delete(p) ==
    \E id \in Targets(p), cancelled \in Contexts(p) :
      \E ot \in OriginalTags(p, id) :
        LET c == [Idle EXCEPT !.op = "Delete", !.item = MkItem(id, ot, 1),
                              !.original = MkItem(id, ot, 1), !.ctxErr = cancelled]
            err == HandlerC(cancelled)
        IN Invoke(p, IF err # "nil" THEN Done(c, err)
                     ELSE [c EXCEPT !.pc = "DeleteOne"])

Seen(id) == IF id \in DOMAIN coll THEN <<coll[id]>> ELSE <<>>

\* Line 178: the native conditional replace.
ReplaceOne(p) ==
    /\ call[p].pc = "ReplaceOne"
    /\ LET c == call[p]
           s == ConditionalFilter(c.original.id, c.original.etag)
           hit == Matching(coll, s)
           c1 == [c EXCEPT !.pc = "UpdateMatched", !.natives = @ \cup {"ReplaceOne"},
                           !.seen = Seen(c.original.id)]
       IN \/ /\ coll' = [id \in DOMAIN coll |->
                            IF id \in hit THEN Encode(newMongoItem(c.item)) ELSE coll[id]]
             /\ Step(p, [c1 EXCEPT !.info = [nil |-> FALSE, n |-> Cardinality(hit)],
                                   !.wrote = @ \cup hit,
                                   !.liveAtWrite = ~c.ctxErr /\ hit # {}],
                     {}, {}, hit)
          \/ /\ UNCHANGED coll
             /\ Step(p, [c1 EXCEPT !.faulted = TRUE,
                                   !.nerr = [shape |-> "other", codes |-> <<>>]],
                     {}, {}, {})

\* Line 214: the native conditional delete.
DeleteOne(p) ==
    /\ call[p].pc = "DeleteOne"
    /\ LET c == call[p]
           s == ConditionalFilter(c.item.id, c.item.etag)
           hit == Matching(coll, s)
           c1 == [c EXCEPT !.pc = "DeleteMatched", !.natives = @ \cup {"DeleteOne"},
                           !.seen = Seen(c.item.id)]
       IN \/ /\ coll' = Remove(coll, hit)
             /\ Step(p, [c1 EXCEPT !.info = [nil |-> FALSE, n |-> Cardinality(hit)],
                                   !.wrote = @ \cup hit,
                                   !.liveAtWrite = ~c.ctxErr /\ hit # {}],
                     {}, hit, {})
          \/ /\ UNCHANGED coll
             /\ Step(p, [c1 EXCEPT !.faulted = TRUE,
                                   !.nerr = [shape |-> "other", codes |-> <<>>]],
                     {}, {}, {})

\* Lines 179-184 and 215-220: the error is returned; with no document
\* matched the document is fetched again by its identifier alone.
Matched(p, at) ==
    /\ call[p].pc = at
    /\ LET c == call[p]
           id == c.original.id
       IN IF c.nerr.shape # "none" THEN Quiet(p, Done(c, "native"))
          ELSE IF c.info.n # 0 THEN Quiet(p, Done(c, "nil"))
          ELSE \/ Quiet(p, [c EXCEPT !.pc = "Disambiguate",
                                     !.natives = @ \cup {"FindOne"},
                                     !.infoErr = IF id \in DOMAIN coll THEN "nil"
                                                 ELSE "ErrNoDocuments"])
               \/ Quiet(p, [c EXCEPT !.pc = "Disambiguate",
                                     !.natives = @ \cup {"FindOne"},
                                     !.faulted = TRUE, !.infoErr = "native"])

UpdateMatched(p) == Matched(p, "UpdateMatched")
DeleteMatched(p) == Matched(p, "DeleteMatched")

\* Lines 185-196 and 221-232.
Disambiguated(p) ==
    /\ call[p].pc = "Disambiguate"
    /\ LET c == call[p]
           err == IF c.nerr.shape = "none" THEN "nil" ELSE "native"
       IN Quiet(p, Done(c, Disambiguate(err, c.infoErr, c.ctxErr)))

(***************************************************************************)
(* The callers' contexts and returns.                                      *)
(***************************************************************************)
\* The context of a call in flight is cancelled, or its deadline passes.
Cancel(p) ==
    /\ InFlight(call[p])
    /\ ~call[p].ctxErr
    /\ Quiet(p, [call[p] EXCEPT !.ctxErr = TRUE])

\* The caller takes the result; it may invoke another operation.
Return(p) ==
    /\ call[p].pc = "done"
    /\ Quiet(p, Idle)

(***************************************************************************)
(* Queries given to Clear, Find, Reduce and Count.                         *)
(***************************************************************************)
Unknown == [kind |-> "Custom"]
EqualV1 == [kind |-> "Equal", value |-> 1, field |-> NameV]
PredAll == <<>>
PredV1 == <<EqualV1>>
BadPreds ==
    {<<EqualV1, Unknown>>,
     <<[kind |-> "And", exps |-> <<EqualV1, Unknown>>]>>,
     <<[kind |-> "Or", exps |-> <<Unknown, EqualV1>>]>>,
     <<[kind |-> "ElemMatch", exps |-> <<Unknown>>, field |-> NameV]>>,
     <<[kind |-> "And", exps |-> <<[kind |-> "Or", exps |-> <<EqualV1, Unknown>>]>>]>>}

MkWindow(o, l) == <<[offset |-> o, limit |-> l]>>
Windows == {NoWindow} \cup {MkWindow(o, l) : o \in 0..MaxLimit, l \in (-1)..MaxLimit}

\* A projection that asks for id alone, a sort by id from the highest.
OnlyId == <<[name |-> NameId]>>
IdDescending == <<[name |-> NameId, reversed |-> TRUE]>>

Queries ==
    [predicate : {PredV1}, sort : {<<>>}, projection : {<<>>}, window : Windows]
    \cup [predicate : BadPreds, sort : {<<>>}, projection : {<<>>},
          window : {NoWindow}]
    \cup [predicate : {<<EqualV1, Unknown>>}, sort : {<<>>}, projection : {<<>>},
          window : {MkWindow(0, 0)}]
    \cup [predicate : {PredV1}, sort : {<<>>}, projection : {OnlyId},
          window : {NoWindow}]
    \cup [predicate : {PredV1}, sort : {IdDescending}, projection : {<<>>},
          window : {NoWindow, MkWindow(0, MaxLimit)}]

\* ZeroLimit without the special case: a limit of 0 goes to the native find.
ZeroLimitIgnored(q) == FALSE

\* Lines 293 and 380: a window whose limit is 0.
ZeroLimit(q) == HasWindow(q) /\ Window(q).limit = 0

(***************************************************************************)
(* Clear.                                                                  *)
(***************************************************************************)
\* Lines 240-253.
Clear(p) ==
    \E q \in Queries, cancelled \in BOOLEAN :
        LET c == [Idle EXCEPT !.op = "Clear", !.q = q, !.ctxErr = cancelled]
            r == getQuery(q)
            err == HandlerC(cancelled)
        IN Invoke(p, IF r.err # "nil" THEN Done(c, r.err)
                     ELSE IF err # "nil" THEN Done(c, err)
                     ELSE [c EXCEPT !.qry = r.b,
                                    !.pc = IF HasWindow(q) THEN "ClearFind"
                                           ELSE "DeleteMany"])

\* Lines 261-268: the pre-query for the identifiers of the window.
ClearFind(p) ==
    /\ call[p].pc = "ClearFind"
    /\ LET c == call[p]
           fo == applyWindow(FindOptions(getSort(c.q)), Window(c.q))
           c1 == [c EXCEPT !.natives = @ \cup {"Find"}]
       IN \/ \E res \in NativeFind(coll, c.qry, fo) :
                Quiet(p, [c1 EXCEPT !.pc = "selectIDs", !.cursor = res, !.open = 1])
          \/ Quiet(p, Done([c1 EXCEPT !.faulted = TRUE], "native"))

\* IdsFilter forgotten: the delete is given the compiled filter again.
IdsFilterUnused(qry, ids) == qry

\* Line 271: the filter of the delete is the set of selected identifiers.
IdsFilter(qry, ids) == (NameUId :> [op |-> "$in", arg |-> ids])

\* selectIDs (query.go lines 106-122), one turn of its loop, and lines
\* 270-274 of Clear.
selectIDs(p) ==
    /\ call[p].pc = "selectIDs"
    /\ LET c == call[p]
       IN IF c.cursor = <<>>
          THEN \/ Quiet(p, [c EXCEPT !.pc = "DeleteMany", !.open = 0,
                                     !.qry = IdsFilter(c.qry, c.ids)])
               \/ \* cursor.Close fails
                  Quiet(p, Done([c EXCEPT !.open = 0, !.faulted = TRUE], "native"))
          ELSE \/ Quiet(p, [c EXCEPT !.ids = Append(@, Head(c.cursor).id),
                                     !.cursor = Tail(@)])
               \/ \* cursor.Decode fails
                  Quiet(p, Done([c EXCEPT !.open = 0, !.faulted = TRUE], "native"))

\* Line 279: the native bulk delete.
DeleteMany(p) ==
    /\ call[p].pc = "DeleteMany"
    /\ LET c == call[p]
           hit == Matching(coll, c.qry)
           c1 == [c EXCEPT !.pc = "ClearReturn", !.natives = @ \cup {"DeleteMany"}]
       IN \/ /\ coll' = Remove(coll, hit)
             /\ Step(p, [c1 EXCEPT !.info = [nil |-> FALSE, n |-> Cardinality(hit)],
                                   !.wrote = @ \cup hit,
                                   !.liveAtWrite = ~c.ctxErr /\ hit # {}],
                     {}, hit, {})
          \/ \* it fails part way: a result and an error
             \E part \in (SUBSET hit) \ {hit} :
                /\ coll' = Remove(coll, part)
                /\ Step(p, [c1 EXCEPT !.info = [nil |-> FALSE, n |-> Cardinality(part)],
                                      !.wrote = @ \cup part, !.faulted = TRUE,
                                      !.nerr = [shape |-> "other", codes |-> <<>>]],
                        {}, part, {})
          \/ \* it fails: no result
             /\ UNCHANGED coll
             /\ Step(p, [c1 EXCEPT !.faulted = TRUE,
                                   !.nerr = [shape |-> "other", codes |-> <<>>]],
                     {}, {}, {})

\* ClearResult that drops the count when there is an error.
ClearResultAllOrNothing(info, nerr, ctxErr) ==
    LET err == IF nerr.shape = "none"
               THEN (IF ctxErr THEN "ctx" ELSE "nil") ELSE "native"
    IN IF info.nil \/ err # "nil" THEN [count |-> 0, err |-> err]
       ELSE [count |-> info.n, err |-> err]

\* Lines 280-286: the count and the error Clear returns.
ClearResult(info, nerr, ctxErr) ==
    LET err == IF nerr.shape = "none"
               THEN (IF ctxErr THEN "ctx" ELSE "nil") ELSE "native"
    IN IF info.nil THEN [count |-> 0, err |-> err]
       ELSE [count |-> info.n, err |-> err]

ClearReturn(p) ==
    /\ call[p].pc = "ClearReturn"
    /\ LET c == call[p]
           r == ClearResult(c.info, c.nerr, c.ctxErr)
       IN Quiet(p, Done([c EXCEPT !.count = r.count], r.err))

(***************************************************************************)
(* Find, Reduce and Count.                                                 *)
(***************************************************************************)
\* Lines 290-325 of Find; with a zero limit, lines 435-444 of Count.
Find(p) ==
    \E q \in Queries, cancelled \in BOOLEAN :
        LET c == [Idle EXCEPT !.op = "Find", !.q = q, !.ctxErr = cancelled]
            r == getQuery(q)
            err == HandlerC(cancelled)
        IN Invoke(p, IF r.err # "nil" THEN Done(c, r.err)
                     ELSE IF err # "nil" THEN Done(c, err)
                     ELSE [c EXCEPT !.qry = r.b,
                                    !.limit = IF HasWindow(q) THEN Window(q).limit
                                              ELSE -1,
                                    !.pc = IF ZeroLimit(q) THEN "CountDocuments"
                                           ELSE "FindCursor"])

\* Lines 377-401.
Reduce(p) ==
    \E q \in Queries, cancelled \in BOOLEAN :
        LET c == [Idle EXCEPT !.op = "Reduce", !.q = q, !.ctxErr = cancelled]
            r == getQuery(q)
            err == HandlerC(cancelled)
        IN Invoke(p, IF ZeroLimit(q) THEN Done(c, "nil")
                     ELSE IF r.err # "nil" THEN Done(c, r.err)
                     ELSE IF err # "nil" THEN Done(c, err)
                     ELSE [c EXCEPT !.qry = r.b, !.pc = "FindCursor"])

\* Lines 435-444: the window and the sort play no part.
Count(p) ==
    \E q \in {x \in Queries : ~HasWindow(x)}, cancelled \in BOOLEAN :
        LET c == [Idle EXCEPT !.op = "Count", !.q = q, !.ctxErr = cancelled,
                              !.count = -1]
            r == getQuery(q)
            err == HandlerC(cancelled)
        IN Invoke(p, IF r.err # "nil" THEN Done(c, r.err)
                     ELSE IF err # "nil" THEN Done(c, err)
                     ELSE [c EXCEPT !.qry = r.b, !.pc = "CountDocuments"])

\* Lines 452-457: the native count; for Find, lines 295-303 too.
CountDocuments(p) ==
    /\ call[p].pc = "CountDocuments"
    /\ LET c == call[p]
           n == Cardinality(Matching(coll, c.qry))
           c1 == [c EXCEPT !.natives = @ \cup {"CountDocuments"}]
       IN \/ Quiet(p, Done([c1 EXCEPT !.count = n, !.nilList = FALSE],
                           "nil"))
          \/ Quiet(p, Done([c1 EXCEPT !.faulted = TRUE], "native"))

\* Lines 333-343 and 409-412: the native find.
FindCursor(p) ==
    /\ call[p].pc = "FindCursor"
    /\ LET c == call[p]
           fo0 == FindOptions(getSort(c.q))
           fo == IF HasWindow(c.q) THEN applyWindow(fo0, Window(c.q)) ELSE fo0
           proj == getProjection(c.q)
           c1 == [c EXCEPT !.natives = @ \cup {"Find"}]
       IN \/ \E res \in NativeFind(coll, c.qry, fo) :
                Quiet(p, [c1 EXCEPT !.pc = "Next", !.open = 1,
                             !.cursor = [i \in DOMAIN res |->
                                 [id |-> res[i].id,
                                  doc |-> Projected(res[i].doc, proj)]]])
          \/ Quiet(p, Done([c1 EXCEPT !.faulted = TRUE], "native"))

\* FindTotal with "<=" for "<": a full page is taken for the whole result.
FindTotalFullPage(limit, q, n) ==
    IF limit < 0 \/ n <= limit
    THEN IF HasWindow(q) /\ Window(q).offset > 0
         THEN (IF n > 0 THEN Window(q).offset + n ELSE -1)
         ELSE n
    ELSE -1

\* Lines 361-373: the total deduced from the number n of items returned.
FindTotal(limit, q, n) ==
    IF limit < 0 \/ n < limit
    THEN IF HasWindow(q) /\ Window(q).offset > 0
         THEN (IF n > 0 THEN Window(q).offset + n ELSE -1)
         ELSE n
    ELSE -1

\* Delivered that goes on with the cursor when the callback returns an error.
DeliveredIgnoringError(c, item, err) ==
    [c EXCEPT !.list = Append(@, item), !.cursor = Tail(@),
              !.failed = @ \/ err # "nil"]

\* Line 356 of Find (err is nil) and lines 425-428 of Reduce: the item is
\* appended to the list, or given to the callback, whose error if any is
\* returned.
Delivered(c, item, err) ==
    IF err # "nil"
    THEN Done([c EXCEPT !.list = Append(@, item), !.failed = TRUE], err)
    ELSE [c EXCEPT !.list = Append(@, item), !.cursor = Tail(@)]

\* Lines 345-374 of Find and 414-431 of Reduce: one turn of the loop, or
\* the end of the cursor.
Turn(p, reducerFails) ==
    LET c == call[p]
        item == newItem(Decode(Head(c.cursor).id, Head(c.cursor).doc))
    IN IF c.cursor = <<>>
       THEN \/ Quiet(p, Done([c EXCEPT !.open = 0, !.nilList = (c.op # "Find"),
                                       !.count = IF c.op = "Find"
                                                 THEN FindTotal(c.limit, c.q, Len(c.list))
                                                 ELSE 0],
                             "nil"))
            \/ \* cursor.Close fails
               Quiet(p, Done([c EXCEPT !.open = 0, !.faulted = TRUE], "native"))
       ELSE \/ IF c.ctxErr
               THEN Quiet(p, Done([c EXCEPT !.open = 0], "ctx"))
               ELSE Quiet(p, Delivered(c, item,
                              IF c.op = "Reduce" /\ reducerFails
                              THEN "reducer" ELSE "nil"))
            \/ \* cursor.Decode fails
               Quiet(p, Done([c EXCEPT !.faulted = TRUE], "native"))

CursorNext(p) ==
    /\ call[p].pc = "Next"
    /\ \E reducerFails \in BOOLEAN : Turn(p, reducerFails)

(***************************************************************************)
(* The specification.                                                      *)
(***************************************************************************)
Next ==
    \/ \E p \in Callers : Insert(p)
    \/ \E p \in Callers : Update(p)
    \/ \E p \in Callers : Delete(p)
    \/ \E p \in Readers : Clear(p)
    \/ \E p \in Readers : Find(p)
    \/ \E p \in Readers : Reduce(p)
    \/ \E p \in Readers : Count(p)
    \/ \E p \in Callers : InsertMany(p)
    \/ \E p \in Callers : InsertReturn(p)
    \/ \E p \in Callers : ReplaceOne(p)
    \/ \E p \in Callers : UpdateMatched(p)
    \/ \E p \in Callers : DeleteOne(p)
    \/ \E p \in Callers : DeleteMatched(p)
    \/ \E p \in Callers : Disambiguated(p)
    \/ \E p \in Readers : ClearFind(p)
    \/ \E p \in Readers : selectIDs(p)
    \/ \E p \in Readers : DeleteMany(p)
    \/ \E p \in Readers : ClearReturn(p)
    \/ \E p \in Readers : CountDocuments(p)
    \/ \E p \in Readers : FindCursor(p)
    \/ \E p \in Readers : CursorNext(p)
    \/ \E p \in Readers : Cancel(p)
    \/ \E p \in Callers : Return(p)

Spec == Init /\ [][Next]_vars

(***************************************************************************)
(* The functions of query.go applied on their own.  The handler is at      *)
(* rest: the collection is empty and no caller is in an operation.         *)
(***************************************************************************)
AtRest ==
    /\ coll = EmptyMap
    /\ call = [p \in Callers |-> Idle]
    /\ ncalls = 0

\* The sequences over S of length at most n.
SeqsUpTo(S, n) == UNION {[1..k -> S] : k \in 0..n}

\* getSort, given any sort list of at most MaxSort fields.
SortNames == {NameId, NameUId, NameV}
SortFields == [name : SortNames, reversed : BOOLEAN]

SortInit ==
    /\ AtRest
    /\ arg \in [set : {TRUE},
                q : [predicate : {<<>>}, sort : SeqsUpTo(SortFields, MaxSort),
                     projection : {<<>>}, window : {NoWindow}]]
    /\ result = Unset

GetSort ==
    /\ arg.set /\ ~result.set
    /\ result' = [set |-> TRUE, sort |-> getSort(arg.q)]
    /\ UNCHANGED <<coll, call, ncalls, arg>>

SortSpec == SortInit /\ [][GetSort]_vars

\* getProjection, given any projection of at most MaxProj fields: id, the
\* wildcard, plain names and dotted paths.
NameStar == <<"*">>
NameVX == <<"v", ".", "x">>
NameIdX == <<"i", "d", ".", "x">>
NameWYZ == <<"w", ".", "y", ".", "z">>
ProjNames == {NameId, NameStar, NameV, NameVX, NameIdX, NameWYZ, NameUEtag}
ProjFields == [name : ProjNames]

ProjInit ==
    /\ AtRest
    /\ arg \in [set : {TRUE},
                q : [predicate : {<<>>}, sort : {<<>>},
                     projection : SeqsUpTo(ProjFields, MaxProj),
                     window : {NoWindow}]]
    /\ result = Unset

GetProjection ==
    /\ arg.set /\ ~result.set
    /\ result' = [set |-> TRUE, projection |-> getProjection(arg.q)]
    /\ UNCHANGED <<coll, call, ncalls, arg>>

ProjSpec == ProjInit /\ [][GetProjection]_vars

(***************************************************************************)
(* The codec applied on its own: newMongoItem, then newItem on what it     *)
(* gave.  Go maps are references, so the payloads live in a heap: "item"   *)
(* is the payload map of the item given, "p" the map newMongoItem makes    *)
(* (line 30); an item or a mongoItem holds the name of its map.            *)
(***************************************************************************)
\* PayloadMap that reuses the map of the item (p := i.Payload).
PayloadMapShared(itemMap) == itemMap

\* Line 30: the payload of the mongoItem is a new map.
PayloadMap(itemMap) == "p"

CodecPayloads ==
    {EmptyMap}
    \cup {(NameV :> v) : v \in Vals}
    \cup {(NameId :> x) : x \in Ids}
    \cup {(NameV :> v) @@ (NameId :> x) : x \in Ids, v \in Vals}

CodecItems == [id : Ids, etag : Tags, updated : Vals, payload : CodecPayloads]

CodecInit ==
    /\ AtRest
    /\ arg \in [set : {TRUE}, item : CodecItems]
    /\ result = Unset

\* newMongoItem(item): the mongoItem, and the heap after the call.
ToStored ==
    /\ arg.set /\ ~result.set
    /\ LET m == newMongoItem(arg.item)
           ref == PayloadMap("item")
           heap == ("item" :> arg.item.payload) @@ ("p" :> EmptyMap)
       IN result' = [set |-> TRUE, stage |-> "stored",
                     heap |-> [heap EXCEPT ![ref] = m.payload],
                     m |-> [m EXCEPT !.payload = ref],
                     item |-> NoItem]
    /\ UNCHANGED <<coll, call, ncalls, arg>>

\* newItem(m) on the mongoItem newMongoItem gave: the item has the map of
\* the mongoItem, written in place (lines 48-52).
FromStored ==
    /\ result.set /\ result.stage = "stored"
    /\ LET ref == result.m.payload
           i == newItem([result.m EXCEPT !.payload = result.heap[ref]])
       IN result' = [result EXCEPT !.stage = "item",
                                   !.heap = [@ EXCEPT ![ref] = i.payload],
                                   !.item = [i EXCEPT !.payload = ref]]
    /\ UNCHANGED <<coll, call, ncalls, arg>>

CodecNext == ToStored \/ FromStored

CodecSpec == CodecInit /\ [][CodecNext]_vars

(***************************************************************************)
(* translatePredicate applied on its own, and the filter it gives matched  *)
(* against one stored document.  The predicates are sequences of at most   *)
(* MaxPred expressions of allow-listed kinds on the fields id and v, with  *)
(* conjunctions and disjunctions of two of them.                           *)
(***************************************************************************)
Leaf(kind, field, value) == [kind |-> kind, field |-> field, value |-> value]

LeafExps ==
    {Leaf("Equal", NameV, 1), Leaf("NotEqual", NameV, 1),
     Leaf("GreaterThan", NameV, 0), Leaf("LowerThan", NameV, 1),
     Leaf("Equal", NameId, 1),
     [kind |-> "Exist", field |-> NameV],
     [kind |-> "In", field |-> NameId, values |-> <<2>>]}

NodeExps ==
    {[kind |-> k, exps |-> <<Leaf("Equal", NameV, v), Leaf("Equal", NameId, 1)>>] :
        k \in {"And", "Or"}, v \in Vals}

FilterDocs ==
    {MkDoc(TRUE, TagA, v) : v \in Vals}
    \cup {[hasEtag |-> TRUE, etag |-> TagA, updated |-> 0, payload |-> EmptyMap]}

FilterInit ==
    /\ AtRest
    /\ arg \in [set : {TRUE},
                predicate : SeqsUpTo(LeafExps \cup NodeExps, MaxPred),
                id : Ids, doc : FilterDocs]
    /\ result = Unset

\* translatePredicate(q.Predicate).
Translate ==
    /\ arg.set /\ ~result.set
    /\ result' = [set |-> TRUE, stage |-> "compiled",
                  r |-> translatePredicate(arg.predicate), matches |-> FALSE]
    /\ UNCHANGED <<coll, call, ncalls, arg>>

\* The database matches the compiled filter against the document.
Match ==
    /\ result.set /\ result.stage = "compiled" /\ result.r.err = "nil"
    /\ result' = [result EXCEPT !.stage = "matched",
                                !.matches = MatchFilter(result.r.b, arg.id, arg.doc)]
    /\ UNCHANGED <<coll, call, ncalls, arg>>

FilterNext == Translate \/ Match

FilterSpec == FilterInit /\ [][FilterNext]_vars

(***************************************************************************)
(* What the properties are measured against: the meaning of a predicate,   *)
(* read off the predicate itself and not off its compiled filter.          *)
(***************************************************************************)
ListedKinds == LeafKinds \cup {"And", "Or", "ElemMatch"}

RECURSIVE HasUnlisted(_)
\* Some node of the predicate, at any depth, is of no kind of the allow-list.
HasUnlisted(exps) ==
    \E i \in 1..Len(exps) :
        \/ exps[i].kind \notin ListedKinds \cup {"Predicate"}
        \/ /\ exps[i].kind \in {"And", "Or", "ElemMatch", "Predicate"}
           /\ HasUnlisted(exps[i].exps)

\* The value of the schema field f of the document id |-> d.
SchemaField(f, id, d) ==
    IF f = NameId THEN [present |-> TRUE, value |-> id]
    ELSE IF f \in DOMAIN d.payload THEN [present |-> TRUE, value |-> d.payload[f]]
    ELSE [present |-> FALSE, value |-> 0]

RECURSIVE Satisfies(_, _, _)
\* The document satisfies every expression of the sequence.
Satisfies(exps, id, d) ==
    \A i \in 1..Len(exps) :
        LET t == exps[i]
            f == SchemaField(t.field, id, d)
        IN CASE t.kind = "And" ->
                  \A j \in 1..Len(t.exps) : Satisfies(<<t.exps[j]>>, id, d)
             [] t.kind = "Or" ->
                  \E j \in 1..Len(t.exps) : Satisfies(<<t.exps[j]>>, id, d)
             [] t.kind = "Predicate" -> Satisfies(t.exps, id, d)
             [] t.kind = "Equal" -> f.present /\ f.value = t.value
             [] t.kind = "NotEqual" -> ~(f.present /\ f.value = t.value)
             [] t.kind = "GreaterThan" -> f.present /\ f.value > t.value
             [] t.kind = "GreaterOrEqual" -> f.present /\ f.value >= t.value
             [] t.kind = "LowerThan" -> f.present /\ f.value < t.value
             [] t.kind = "LowerOrEqual" -> f.present /\ f.value <= t.value
             [] t.kind = "In" ->
                  f.present /\ \E j \in 1..Len(t.values) : t.values[j] = f.value
             [] t.kind = "NotIn" ->
                  ~(f.present /\ \E j \in 1..Len(t.values) : t.values[j] = f.value)
             [] t.kind = "Exist" -> f.present
             [] t.kind = "NotExist" -> ~f.present
             [] OTHER -> FALSE

\* The documents of the collection that satisfy the predicate of q.
Satisfying(q) == {id \in DOMAIN coll : Satisfies(q.predicate, id, coll[id])}

Range(s) == {s[i] : i \in 1..Len(s)}

\* The tag of a stored document as a reader is given it: the stored tag, or
\* "p-" and the identifier when no tag is stored.
StoredTag(id, d) == IF d.hasEtag THEN d.etag ELSE PPrefix \o Sprint(id)

Mutating == {"Insert", "Update", "Delete", "Clear"}
Querying == {"Clear", "Find", "Reduce", "Count"}

(***************************************************************************)
(* Properties.                                                             *)
(***************************************************************************)

\* C1: an Update or a Delete that has returned, with a live context, no
\* concurrent writer and no failure of a native call, has one of three
\* outcomes: the document existed with a tag equal to the supplied tag, the
\* call returned no error and the document is replaced (Update) or removed
\* (Delete); the document existed with another tag, the call returned
\* Conflict and wrote nothing; no document had the identifier, the call
\* returned NotFound and wrote nothing.
C1_ThreeOutcomes ==
    \A p \in Callers :
        LET c == call[p]
            id == c.original.id
        IN (/\ c.pc = "done" /\ c.op \in {"Update", "Delete"}
            /\ ~c.ctxErr /\ ~c.interf /\ ~c.faulted)
           => IF c.seen = <<>>
              THEN c.ret = "NotFound" /\ c.wrote = {}
              ELSE IF StoredTag(id, c.seen[1]) = c.original.etag
              THEN /\ c.ret = "nil"
                   /\ c.wrote = {id}
                   /\ IF c.op = "Update"
                      THEN id \in DOMAIN coll
                           /\ coll[id] = Encode(newMongoItem(c.item))
                      ELSE id \notin DOMAIN coll
              ELSE c.ret = "Conflict" /\ c.wrote = {}

\* Two calls that are done, each an Update or a Delete of the same document
\* with the same original tag, that ran concurrently with each other and
\* with no other call, every Update writing another tag than the original.
Rivals(p, q) ==
    /\ p # q
    /\ \A x \in {p, q} :
          /\ call[x].pc = "done"
          /\ call[x].op \in {"Update", "Delete"}
          /\ call[x].met = 1
          /\ call[x].op = "Update" => call[x].item.etag # call[x].original.etag
    /\ call[p].original.id = call[q].original.id
    /\ call[p].original.etag = call[q].original.etag

\* C2: no lost update.  Of two concurrent Update or Delete calls on the same
\* document with the same original tag, every Update writing another tag, at
\* most one returns no error; a call that returns an error wrote nothing;
\* and beside a winner the other call, its context live and its native calls
\* answered, returns Conflict, or NotFound if the winner was a Delete.
C2_NoLostUpdate ==
    \A p, q \in Callers :
        Rivals(p, q) =>
            /\ ~(call[p].ret = "nil" /\ call[q].ret = "nil")
            /\ call[q].ret # "nil" => call[q].wrote = {}
            /\ (call[p].ret = "nil" /\ ~call[q].ctxErr /\ ~call[q].faulted)
                  => \/ call[q].ret = "Conflict"
                     \/ call[q].ret = "NotFound" /\ call[p].op = "Delete"

\* Reached: two concurrent updates of one document with one original tag,
\* one has replaced the document and the other returned Conflict.
C2_Witness ==
    \E p, q \in Callers :
        /\ Rivals(p, q)
        /\ call[p].op = "Update" /\ call[q].op = "Update"
        /\ call[p].ret = "nil" /\ call[p].wrote # {}
        /\ call[q].ret = "Conflict"

\* C3: a Clear with a window that has issued its delete removed no document
\* outside the identifiers it selected; and when no selected document was
\* removed by another call after the selection (the concurrent calls are
\* inserts and updates), it removed no document inserted after the selection
\* and, its delete having succeeded, the count it returns is the number of
\* identifiers selected.
C3_ClearSelectsThenDeletes ==
    \A p \in Callers :
        LET c == call[p]
        IN (/\ c.op = "Clear" /\ HasWindow(c.q)
            /\ c.pc \in {"ClearReturn", "done"} /\ "DeleteMany" \in c.natives)
           => /\ c.wrote \subseteq Range(c.ids)
              /\ ~c.othersRemoved =>
                    /\ c.wrote \cap c.since = {}
                    /\ (c.pc = "done" /\ ~c.faulted) => c.count = Len(c.ids)

\* Reached: a windowed Clear has returned the number of identifiers it
\* selected, and a document inserted after the selection, which satisfies
\* the predicate, is still in the collection.
C3_Witness ==
    \E p \in Callers :
        LET c == call[p]
        IN /\ c.op = "Clear" /\ HasWindow(c.q) /\ c.pc = "done" /\ c.ret = "nil"
           /\ c.count = Len(c.ids) /\ c.count > 0 /\ c.wrote = Range(c.ids)
           /\ ~c.othersRemoved
           /\ \E id \in c.since : id \in Satisfying(c.q)

C5_FindZeroLimit ==
    \A p \in Callers :
        LET c == call[p]
        IN (/\ c.op = "Find" /\ HasWindow(c.q) /\ Window(c.q).limit = 0)
           => /\ "Find" \notin c.natives
              /\ c.list = <<>>
              /\ (c.pc = "done" /\ c.ret = "nil")
                    => /\ ~c.nilList
                       /\ c.natives = {"CountDocuments"}
                       /\ ~c.interf => c.count = Cardinality(Satisfying(c.q))

\* Reached: a Find with limit 0 returned no item and a total of 1 from a
\* collection that holds a second document, which does not satisfy the
\* predicate.
C5_Witness ==
    \E p \in Callers :
        LET c == call[p]
        IN /\ c.op = "Find" /\ HasWindow(c.q) /\ Window(c.q).limit = 0
           /\ c.pc = "done" /\ c.ret = "nil" /\ c.list = <<>> /\ c.count = 1
           /\ Cardinality(DOMAIN coll) = 2

\* Two items of the batch have the same identifier.
SharedId(items) ==
    \E i, j \in 1..Len(items) : i # j /\ items[i].id = items[j].id

\* C6: an Insert with a live context returns Conflict when the native insert
\* reported a write error of code 11000, in the single-write or in the
\* bulk-write shape; it did so, every native call answered, when two items
\* of the batch shared an identifier or an identifier of the batch was in
\* the collection.
C6_InsertDuplicate ==
    \A p \in Callers :
        LET c == call[p]
        IN (c.op = "Insert" /\ c.pc = "done" /\ ~c.ctxErr /\ "InsertMany" \in c.natives)
           => /\ (/\ c.nerr.shape \in {"WriteException", "BulkWriteException"}
                  /\ DupCode \in Range(c.nerr.codes))
                    => c.ret = "Conflict"
              /\ (/\ ~c.faulted
                  /\ \/ SharedId(c.items)
                     \/ \E i \in 1..Len(c.items) : c.items[i].id \in c.had)
                    => c.ret = "Conflict"
              /\ c.nerr.shape = "none" => c.ret = "nil"

\* Reached: an Insert of two items with one identifier, into a collection
\* without it, returned Conflict on a bulk-write error.
C6_Witness ==
    \E p \in Callers :
        LET c == call[p]
        IN /\ c.op = "Insert" /\ c.pc = "done" /\ ~c.ctxErr /\ c.ret = "Conflict"
           /\ c.nerr.shape = "BulkWriteException"
           /\ SharedId(c.items) /\ c.items[1].id \notin c.had

\* C7: a mutating operation whose native mutating call succeeded under a
\* live context, and whose context was cancelled before it returned, returns
\* the context's error, its write staying applied.
C7_CancelAfterWrite ==
    \A p \in Callers :
        LET c == call[p]
        IN (c.pc = "done" /\ c.op \in Mutating /\ c.liveAtWrite /\ c.ctxErr)
           => c.ret = "ctx" /\ c.wrote # {}

\* A call invoked with a context already cancelled or expired, its query
\* made of allow-listed kinds only.
CancelledCall(c) ==
    /\ c.op # "idle"
    /\ c.startCancelled
    /\ c.op \in Querying => ~HasUnlisted(c.q.predicate)

\* C8, as stated: every operation invoked with a context already cancelled
\* and a query of allow-listed kinds issues no native call, writes nothing
\* and returns the context's error.
C8_CancelledBeforeCallAll ==
    \A p \in Callers :
        CancelledCall(call[p])
           => /\ call[p].pc = "done" /\ call[p].ret = "ctx"
              /\ call[p].natives = {} /\ call[p].wrote = {}

\* C8, amended: every operation invoked with a context already cancelled and
\* a query of allow-listed kinds issues no native call and writes nothing;
\* it returns the context's error, except Reduce with a window limit of 0,
\* which returns no error.
C8_CancelledBeforeCall ==
    \A p \in Callers :
        LET c == call[p]
        IN CancelledCall(c)
           => /\ c.pc = "done" /\ c.natives = {} /\ c.wrote = {}
              /\ c.ret = IF c.op = "Reduce" /\ HasWindow(c.q) /\ Window(c.q).limit = 0
                         THEN "nil" ELSE "ctx"

\* Reached: a Find with a window limit of 0 (the path through Count),
\* invoked with a cancelled context, returned the context's error.
C8_Witness ==
    \E p \in Callers :
        LET c == call[p]
        IN /\ CancelledCall(c) /\ c.op = "Find"
           /\ HasWindow(c.q) /\ Window(c.q).limit = 0
           /\ c.pc = "done" /\ c.ret = "ctx" /\ c.natives = {}

\* C9: the count a Clear returns is the number of documents this call
\* removed, whatever the error it returns with it.
C9_ClearCount ==
    \A p \in Callers :
        LET c == call[p]
        IN (c.op = "Clear" /\ c.pc = "done") => c.count = Cardinality(c.wrote)

\* Reached: a Clear returned an error and a count of 1, having removed one
\* document of the two its filter matched.
C9_Witness ==
    \E p \in Callers :
        LET c == call[p]
        IN /\ c.op = "Clear" /\ c.pc = "done" /\ c.ret = "native"
           /\ c.count = 1 /\ Cardinality(c.wrote) = 1
           /\ Cardinality(Satisfying(c.q)) = 1

\* A call of a querying operation whose predicate holds, at some depth, a
\* node of no allow-listed kind.
UnlistedCall(c) == c.op \in Querying /\ HasUnlisted(c.q.predicate)

\* C10, as stated: the predicate is compiled to NotImplemented and no
\* filter, and Find, Reduce, Count and Clear return NotImplemented with no
\* native call and nothing written.
C10_UnlistedKindAll ==
    \A p \in Callers :
        LET c == call[p]
            r == translatePredicate(c.q.predicate)
        IN UnlistedCall(c)
           => /\ r.err = "NotImplemented" /\ r.nil /\ r.b = EmptyMap
              /\ c.pc = "done" /\ c.ret = "NotImplemented"
              /\ c.natives = {} /\ c.wrote = {}

\* C10, amended: a predicate with a node of no allow-listed kind, at any
\* depth, is compiled to NotImplemented and no filter; Find, Count and Clear
\* given it, and Reduce unless its window limit is 0, return NotImplemented;
\* Reduce with a window limit of 0 returns no error; none of them issues a
\* native call or writes.
C10_UnlistedKind ==
    \A p \in Callers :
        LET c == call[p]
            r == translatePredicate(c.q.predicate)
        IN UnlistedCall(c)
           => /\ r.err = "NotImplemented" /\ r.nil /\ r.b = EmptyMap
              /\ c.pc = "done" /\ c.natives = {} /\ c.wrote = {}
              /\ c.ret = IF c.op = "Reduce" /\ HasWindow(c.q) /\ Window(c.q).limit = 0
                         THEN "nil" ELSE "NotImplemented"

\* Reached: a Clear whose predicate holds the unlisted node two levels down
\* returned NotImplemented and a count of 0 from a collection of two
\* documents.
C10_Witness ==
    \E p \in Callers :
        LET c == call[p]
        IN /\ UnlistedCall(c) /\ c.op = "Clear" /\ c.pc = "done"
           /\ c.ret = "NotImplemented" /\ c.count = 0
           /\ c.q.predicate[1].kind = "And"
           /\ c.q.predicate[1].exps[1].kind = "Or"
           /\ Cardinality(DOMAIN coll) = 2

\* The name a sort field is given in the collection.
SortName(n) == IF n = NameId THEN NameUId ELSE n

\* The position of the last field of the sort list with the translated name k.
LastOf(sort, k) ==
    CHOOSE i \in 1..Len(sort) :
        /\ SortName(sort[i].name) = k
        /\ \A j \in (i + 1)..Len(sort) : SortName(sort[j].name) # k

\* C11: getSort of an empty sort list is the one entry (_id, ascending);
\* of any other list it has one entry for each distinct translated name of
\* the list and no other, each with the direction of the last field of that
\* name, the entries in the order of those last fields.
C11_SortNormalized ==
    result.set /\ "sort" \in DOMAIN result =>
        LET in == arg.q.sort
            out == result.sort
            names == {SortName(in[i].name) : i \in 1..Len(in)}
        IN IF in = <<>>
           THEN out = <<[key |-> NameUId, value |-> 1]>>
           ELSE /\ {out[j].key : j \in 1..Len(out)} = names
                /\ Len(out) = Cardinality(names)
                /\ \A j \in 1..Len(out) :
                      out[j].value = IF in[LastOf(in, out[j].key)].reversed
                                     THEN -1 ELSE 1
                /\ \A j, k \in 1..Len(out) :
                      j < k => LastOf(in, out[j].key) < LastOf(in, out[k].key)

\* Reached: id ascending, v ascending, _id descending is normalized to
\* v ascending, _id descending.
C11_Witness ==
    /\ result.set /\ "sort" \in DOMAIN result
    /\ arg.q.sort = <<[name |-> NameId, reversed |-> FALSE],
                      [name |-> NameV, reversed |-> FALSE],
                      [name |-> NameUId, reversed |-> TRUE]>>
    /\ result.sort = <<[key |-> NameV, value |-> 1],
                       [key |-> NameUId, value |-> -1]>>

\* The top-level segment of a field name: what stands before its first dot.
Segment(name) ==
    LET dots == {i \in 1..Len(name) : name[i] = "."}
    IN IF dots = {} THEN name
       ELSE SubSeq(name, 1, (CHOOSE i \in dots : \A j \in dots : i <= j) - 1)

\* C12: getProjection gives no projection when no field is requested or a
\* requested field is "*"; otherwise it gives the inclusion of _id, _etag,
\* _updated and of the top-level segment, id translated to _id, of every
\* requested field but id, and of nothing else.
C12_ProjectionNormalized ==
    result.set /\ "projection" \in DOMAIN result =>
        LET in == arg.q.projection
            out == result.projection
            requested == {in[i].name : i \in 1..Len(in)}
        IN IF in = <<>> \/ NameStar \in requested
           THEN out.nil
           ELSE /\ ~out.nil
                /\ DOMAIN out.p =
                      {NameUId, NameUEtag, NameUUpdated}
                      \cup {SortName(Segment(n)) : n \in requested \ {NameId}}
                /\ \A k \in DOMAIN out.p : out.p[k] = 1

\* Reached: the projection (v.x, id) is normalized to the inclusion of _id,
\* _etag, _updated and v.
C12_Witness ==
    /\ result.set /\ "projection" \in DOMAIN result
    /\ arg.q.projection = <<[name |-> NameVX], [name |-> NameId]>>
    /\ ~result.projection.nil
    /\ DOMAIN result.projection.p = {NameUId, NameUEtag, NameUUpdated, NameV}

\* C13: newItem(newMongoItem(item)) has the identifier and the time of the
\* item, its tag if it is not empty and "p-" and the identifier if it is,
\* and the payload of the item with id set to the identifier; the payload
\* map of the item given is as it was, after newMongoItem and after
\* newItem; the payload of the mongoItem has no id.
C13_CodecRoundTrip ==
    result.set /\ "stage" \in DOMAIN result =>
        LET in == arg.item
            out == result.item
        IN /\ result.heap["item"] = in.payload
           /\ result.stage = "stored" =>
                 /\ NameId \notin DOMAIN result.heap[result.m.payload]
                 /\ result.m.id = in.id /\ result.m.etag = in.etag
                 /\ result.m.updated = in.updated
           /\ result.stage = "item" =>
                 /\ out.id = in.id
                 /\ out.updated = in.updated
                 /\ out.etag = IF in.etag # <<>> THEN in.etag
                                ELSE <<"p", "-">> \o <<ToString(in.id)>>
                 /\ DOMAIN result.heap[out.payload] = DOMAIN in.payload \cup {NameId}
                 /\ \A k \in DOMAIN result.heap[out.payload] :
                       result.heap[out.payload][k] =
                           IF k = NameId THEN in.id ELSE in.payload[k]

\* Reached: an item with an empty tag and a payload whose id is not its
\* identifier has gone through both conversions; it has the tag "p-1" and
\* the payload id 1, and the payload given still says 2.
C13_Witness ==
    /\ result.set /\ "stage" \in DOMAIN result /\ result.stage = "item"
    /\ arg.item.id = 1 /\ arg.item.etag = <<>>
    /\ arg.item.payload = (NameV :> 1) @@ (NameId :> 2)
    /\ result.item.etag = <<"p", "-", "1">>
    /\ result.heap[result.item.payload][NameId] = 1
    /\ result.heap["item"][NameId] = 2

\* C14: every item in the list of a Find, and every item given to the
\* callback of a Reduce, has a tag that is not empty and a payload whose id
\* is the identifier of the item.
C14_ItemsWellFormed ==
    \A p \in Callers :
        LET c == call[p]
        IN c.op \in {"Find", "Reduce"} =>
              \A i \in 1..Len(c.list) :
                  /\ c.list[i].etag # <<>>
                  /\ NameId \in DOMAIN c.list[i].payload
                  /\ c.list[i].payload[NameId] = c.list[i].id

\* Reached: a Find with a projection on id has returned the document 1,
\* stored with no tag, as an item with the tag "p-1" and the payload id 1
\* alone.
C14_Witness ==
    \E p \in Callers :
        LET c == call[p]
        IN /\ c.op = "Find" /\ c.pc = "done" /\ c.ret = "nil"
           /\ c.q.projection = OnlyId
           /\ Len(c.list) > 0
           /\ c.list[1].id = 1
           /\ c.list[1].etag = <<"p", "-", "1">>
           /\ c.list[1].payload = (NameId :> 1)
           /\ ~coll[1].hasEtag

\* The item a Find returns for the stored document id |-> d (lines 345-356).
FoundItem(id, d) == newItem(Decode(id, d))

\* C15: an Update or a Delete, with a live context, no failure of a native
\* call and no other write during the call, whose original carries the tag
\* a Find returns for the document as it is stored, returns no error and
\* has replaced or removed the document.
C15_ReadThenWrite ==
    \A p \in Callers :
        LET c == call[p]
            id == c.original.id
        IN (/\ c.pc = "done" /\ c.op \in {"Update", "Delete"}
            /\ ~c.ctxErr /\ ~c.interf /\ ~c.faulted
            /\ c.seen # <<>>
            /\ c.original.etag = FoundItem(id, c.seen[1]).etag)
           => c.ret = "nil" /\ c.wrote = {id}

\* The number of documents of the set that come before the document id in
\* the order of the query: by identifier, from the lowest unless the sort
\* asks for id reversed.
Rank(q, set, id) ==
    Cardinality({m \in set : IF q.sort # <<>> /\ q.sort[1].reversed
                             THEN m > id ELSE m < id})

\* C16: a Clear with a window whose limit is 0 or more, with no concurrent
\* write and no failure, has removed at most limit documents: the documents
\* that satisfied the predicate at the positions offset .. offset+limit-1
\* of the sort order, and it returns their number; with a limit of 0 it
\* has removed nothing and returns 0.
C16_ClearWindow ==
    \A p \in Callers :
        LET c == call[p]
            w == Window(c.q)
            matched == Satisfying(c.q) \cup c.wrote
        IN (/\ c.op = "Clear" /\ c.pc = "done" /\ c.ret = "nil"
            /\ HasWindow(c.q) /\ w.limit >= 0
            /\ ~c.interf /\ ~c.faulted)
           => /\ Cardinality(c.wrote) <= w.limit
              /\ c.count = Cardinality(c.wrote)
              /\ c.wrote = {id \in matched :
                               /\ Rank(c.q, matched, id) >= w.offset
                               /\ Rank(c.q, matched, id) < w.offset + w.limit}

\* An Update or a Delete that has returned after its conditional write
\* matched no document and the document was fetched again.
Refetched(c) ==
    /\ c.pc = "done" /\ c.op \in {"Update", "Delete"}
    /\ ~c.info.nil /\ c.info.n = 0
    /\ "FindOne" \in c.natives

\* C17: when the conditional write matched no document and the re-fetch
\* failed with a native error other than "no document", the context live,
\* the operation returns that error; it returns Conflict only when the
\* re-fetch found the document.
C17_RefetchError ==
    \A p \in Callers :
        LET c == call[p]
        IN Refetched(c) =>
              /\ (c.infoErr = "native" /\ ~c.ctxErr) => c.ret = "native"
              /\ c.ret = "Conflict" => c.infoErr = "nil"

\* C18: when the conditional write matched no document and the context is
\* cancelled by the time the outcome is decided, the operation returns the
\* context's error and neither NotFound nor Conflict, whatever the re-fetch
\* reported.
C18_CancelOverOutcome ==
    \A p \in Callers :
        LET c == call[p]
        IN (Refetched(c) /\ c.ctxErr) => c.ret = "ctx"

\* C19: a predicate of allow-listed expressions is compiled without error,
\* and a document matches the compiled filter exactly when it satisfies
\* every expression of the predicate.
C19_FilterEquivalent ==
    (result.set /\ "matches" \in DOMAIN result) =>
        /\ result.r.err = "nil"
        /\ result.stage = "matched" =>
              (result.matches <=> Satisfies(arg.predicate, arg.id, arg.doc))

\* The number of documents a query with no zero limit selects out of n
\* that satisfy its predicate.
InWindow(q, n) ==
    LET rest == IF HasWindow(q) /\ Window(q).offset < n THEN n - Window(q).offset
                ELSE IF HasWindow(q) THEN 0 ELSE n
    IN IF HasWindow(q) /\ Window(q).limit >= 0 /\ Window(q).limit < rest
       THEN Window(q).limit ELSE rest

C21_CursorsClosed ==
    \A p \in Callers :
        LET c == call[p]
        IN (c.pc = "done" /\ c.op \in {"Find", "Reduce", "Clear"})
              => c.open = 0

=============================================================================
